---- MODULE Spec2Model ----
(***************************************************************************)
(* RLE core engine (lab/monitoring/rle_core.py, class RLECore) as a state  *)
(* machine.  One engine instance is a record holding the fields of `self`; *)
(* compute_rle is one action that folds one sample into the instance and   *)
(* returns an RLEResult.                                                   *)
(*                                                                         *)
(* Numbers.  Python floats are modelled as fixed-point integers counting   *)
(* thousandths (Q = 1000 units per 1.0): 85.0 is 85000, 0.998 is 998.      *)
(* Every quotient is floored to that grid.  The guards max(x, 1e-6) of the *)
(* source protect divisions; 1e-6 lies below the grid, so a guard is       *)
(* written at the place it is used, by the case it decides there.          *)
(***************************************************************************)
EXTENDS Integers, Sequences, FiniteSets, TLC

Q == 1000

Max(a, b) == IF a >= b THEN a ELSE b
Min(a, b) == IF a <= b THEN a ELSE b

\* Optional[float]: None is the empty tuple, a present value v is <<v>>.
None == << >>
Some(v) == << v >>
IsNone(o) == o = << >>
Val(o) == o[1]

\* sum(s), adding the two halves of the sequence.
RECURSIVE Sum(_)
Sum(s) ==
    IF s = << >> THEN 0
    ELSE IF Len(s) = 1 THEN s[1]
    ELSE LET h == Len(s) \div 2
         IN  Sum(SubSeq(s, 1, h)) + Sum(SubSeq(s, h + 1, Len(s)))

RECURSIVE SumSq(_)
SumSq(s) ==
    IF s = << >> THEN 0
    ELSE IF Len(s) = 1 THEN s[1] * s[1]
    ELSE LET h == Len(s) \div 2
         IN  SumSq(SubSeq(s, 1, h)) + SumSq(SubSeq(s, h + 1, Len(s)))

RECURSIVE SeqMin(_)
SeqMin(s) ==
    IF Len(s) = 1 THEN s[1]
    ELSE LET h == Len(s) \div 2
         IN  Min(SeqMin(SubSeq(s, 1, h)), SeqMin(SubSeq(s, h + 1, Len(s))))

Last(s) == s[Len(s)]

\* data[-n:] for n >= 1: the last n entries, or all of them when there are fewer.
LastN(s, n) == IF Len(s) <= n THEN s ELSE SubSeq(s, Len(s) - n + 1, Len(s))

RECURSIVE SqrtSearch(_, _, _)
SqrtSearch(x, lo, hi) ==
    IF lo >= hi THEN lo
    ELSE LET mid == (lo + hi + 1) \div 2
         IN  IF mid * mid <= x THEN SqrtSearch(x, mid, hi)
                               ELSE SqrtSearch(x, lo, mid - 1)

\* floor(sqrt(x)) for 0 <= x < 2^31
ISqrt(x) == SqrtSearch(x, 0, 46340)

RECURSIVE CbrtSearch(_, _, _)
CbrtSearch(x, lo, hi) ==
    IF lo >= hi THEN lo
    ELSE LET mid == (lo + hi + 1) \div 2
         IN  IF mid * mid * mid <= x THEN CbrtSearch(x, mid, hi)
                                     ELSE CbrtSearch(x, lo, mid - 1)

\* floor(cbrt(x)) for 0 <= x <= 10^9
ICbrt(x) == CbrtSearch(x, 0, 1000)

\* int(round(a / b)) for a >= 0, b > 0: Python 3 rounds halves to even.
RoundDiv(a, b) ==
    LET q == a \div b
        r == a % b
    IN  IF 2 * r < b THEN q
        ELSE IF 2 * r > b THEN q + 1
        ELSE IF q % 2 = 0 THEN q ELSE q + 1

\* statistics.pstdev(window), in thousandths.  The deviations are taken from
\* the window's minimum and summed in tenths so that the squares stay in range.
PStdev(window) ==
    LET n  == Len(window)
        lo == SeqMin(window)
        d  == [i \in 1..n |-> (window[i] - lo) \div 100]
        v  == n * SumSq(d) - Sum(d) * Sum(d)
    IN  (ISqrt(v * 100) * 10) \div n

\* RLECore._rolling_mean
RollingMean(data, n) ==
    IF data = << >> THEN 0
    ELSE IF Len(data) <= n THEN Sum(data) \div Len(data)
    ELSE Sum(LastN(data, n)) \div n

\* RLECore._rolling_stdev
RollingStdev(data, n) ==
    IF Len(data) < 2 THEN 0
    ELSE PStdev(IF Len(data) >= n THEN LastN(data, n) ELSE data)

(***************************************************************************)
(* Constructor defaults (RLECore.__init__), in thousandths where they are  *)
(* floats.                                                                 *)
(***************************************************************************)
DefaultSmoothN == 5
DefaultHysteresis == 7
InitialT0 == 60000
RbLen == 1024
MinWarm == 5

DefaultConfig ==
    [ rated_power_w |-> 100000, temp_limit_c |-> 85000, max_t_sustain_s |-> 600000,
      smooth_n |-> DefaultSmoothN,
      rolling_decay |-> 998, drop_frac |-> 650, hysteresis_s |-> DefaultHysteresis,
      util_gate_pct |-> 60000, a_load_gate |-> 750,
      enable_micro_scale |-> FALSE, sensor_temp_lsb_c |-> 100,
      low_power_knee_w |-> 3000,
      enable_theta_clock |-> TRUE, theta_update_sec |-> 60000,
      theta_min_s |-> 5000, theta_max_s |-> 600000,
      use_theta_windows |-> FALSE, stability_window_theta |-> 5000,
      smooth_window_theta |-> None, hysteresis_theta |-> None ]

\* RLECore.__init__: the fields of a fresh instance built from the arguments c.
NewCore(c) ==
    [ rated_power_w |-> c.rated_power_w, temp_limit_c |-> c.temp_limit_c,
      max_t_sustain_s |-> c.max_t_sustain_s,
      smooth_n |-> Max(1, c.smooth_n),
      rolling_decay |-> c.rolling_decay, drop_frac |-> c.drop_frac,
      hysteresis_s |-> c.hysteresis_s,
      util_gate_pct |-> c.util_gate_pct, a_load_gate |-> c.a_load_gate,
      enable_micro_scale |-> c.enable_micro_scale,
      sensor_temp_lsb_c |-> c.sensor_temp_lsb_c,
      low_power_knee_w |-> c.low_power_knee_w,
      enable_theta_clock |-> c.enable_theta_clock,
      theta_update_sec |-> Max(5000, c.theta_update_sec),
      theta_min_s |-> Max(1, c.theta_min_s),
      theta_max_s |-> Max(Max(1, c.theta_min_s), c.theta_max_s),
      use_theta_windows |-> c.use_theta_windows,
      stability_window_theta |-> c.stability_window_theta,
      smooth_window_theta |-> c.smooth_window_theta,
      hysteresis_theta |-> c.hysteresis_theta,
      util_hist |-> << >>, temp_hist |-> << >>, rle_hist |-> << >>,
      rle_hist_ms |-> << >>, rle_hist_uni |-> << >>,
      rolling_peak |-> 0, below_ctr |-> 0,
      t0_s |-> InitialT0, theta_index |-> 0, theta_c |-> 0,
      since_theta_update_s |-> 0,
      rb_len |-> RbLen,
      buf_rle_sm |-> << >>, buf_temp |-> << >>, buf_dt |-> << >> ]

(***************************************************************************)
(* Core metric calculator                                                  *)
(***************************************************************************)

\* RLECore._mean_dt
MeanDt(self) ==
    IF self.buf_dt = << >> THEN Q ELSE Sum(self.buf_dt) \div Len(self.buf_dt)

\* RLECore._theta_window_to_n.  theta_window / (dt_mean / T0) is taken as
\* one rounded quotient; both 1e-6 guards are below any value reached here
\* (dt_mean > 0, T0 > 0).
ThetaWindowToN(self, theta_window) ==
    LET dt_mean == Max(MeanDt(self), 1)
        dtheta_mean == Max((dt_mean * Q) \div Max(self.t0_s, 1), 1)
        n == Max(3, RoundDiv(theta_window, dtheta_mean))
        samples_in_update == RoundDiv(self.theta_update_sec, dt_mean)
        cap == Max(12, 4 * samples_in_update)
    IN  Min(n, cap)

\* Mutant of ComputeTSustain: the result is floored at 0 instead of 1.0.
TSustainFlooredAtZero(temp_limit_c, temp_hist, dt_s, max_t) ==
    IF Len(temp_hist) < 2 THEN max_t
    ELSE LET dT == temp_hist[Len(temp_hist)] - temp_hist[Len(temp_hist) - 1]
             dTdt == Max((dT * Q) \div Max(dt_s, 1), 1)
         IN  Max(Min(((temp_limit_c - Last(temp_hist)) * Q) \div dTdt, max_t), 0)

\* RLECore.compute_t_sustain (static)
ComputeTSustain(temp_limit_c, temp_hist, dt_s, max_t) ==
    IF Len(temp_hist) < 2 THEN max_t
    ELSE LET dT == temp_hist[Len(temp_hist)] - temp_hist[Len(temp_hist) - 1]
             dTdt == Max((dT * Q) \div Max(dt_s, 1), 1)
             t_sustain == ((temp_limit_c - Last(temp_hist)) * Q) \div dTdt
         IN  Max(Min(t_sustain, max_t), Q)

\* The window of the stability term (compute_components, n_stab).
StabilityWindow(self) ==
    IF self.enable_theta_clock /\ self.use_theta_windows
       /\ self.stability_window_theta > 0
    THEN ThetaWindowToN(self, self.stability_window_theta)
    ELSE 5

\* RLECore.compute_components: appends to the two histories and returns the
\* four components; `self` is the instance after the appends.
ComputeComponents(self0, util_pct, temp_c, power_w, dt_s) ==
    LET self == [self0 EXCEPT
                   !.util_hist = Append(@, Max(0, Min(100 * Q, util_pct))),
                   !.temp_hist = IF IsNone(temp_c) THEN @ ELSE Append(@, Val(temp_c))]
        eta == Last(self.util_hist) \div 100
        stdev == RollingStdev(self.util_hist, StabilityWindow(self))
        stability == (Q * Q) \div (Q + stdev)
        p == IF ~IsNone(power_w) /\ Val(power_w) > 0
             THEN Val(power_w)
             ELSE (self.rated_power_w * eta) \div Q
        a_load == (p * Q) \div Max(self.rated_power_w, 1)
        t_sustain == ComputeTSustain(self.temp_limit_c, self.temp_hist, dt_s,
                                     self.max_t_sustain_s)
    IN  [self |-> self, eta |-> eta, stability |-> stability,
         a_load |-> a_load, t_sustain |-> t_sustain]


\* RLECore._smooth_rle: appends to rle_hist and returns the rolling mean.
\* override_n is None or a positive window.
SmoothRle(self0, rle_raw, override_n) ==
    LET self == [self0 EXCEPT !.rle_hist = Append(@, rle_raw)]
        n == IF ~IsNone(override_n) /\ Val(override_n) > 0
             THEN Val(override_n) ELSE self.smooth_n
    IN  [self |-> self, rle_sm |-> RollingMean(self.rle_hist, n)]

(***************************************************************************)
(* Adaptive clock estimator                                                *)
(***************************************************************************)

\* Mutant of Push: a full buffer gives up its newest value, not its oldest.
PushPopsNewest(buf, x, cap) ==
    LET b == Append(buf, x) IN IF Len(b) > cap THEN SubSeq(b, 1, cap) ELSE b

\* buf.append(x); if len(buf) > cap: buf.pop(0)
Push(buf, x, cap) ==
    LET b == Append(buf, x) IN IF Len(b) > cap THEN Tail(b) ELSE b

\* Thermal time-constant proxy (lines 263-272): None, or the clamped 10 / avg
\* positive slope of the last 256 buffered temperatures.
TauThEst(self, dt_mean) ==
    IF Len(self.buf_temp) < 8 THEN None
    ELSE LET window == LastN(self.buf_temp, Min(Len(self.buf_temp), 256))
             derivs == [i \in 1..(Len(window) - 1) |->
                          Max(((window[i + 1] - window[i]) * Q) \div Max(dt_mean, 1), 0)]
             avg_dTdt == Sum(derivs) \div Max(Len(derivs), 1)
         IN  IF avg_dTdt > 0
             THEN Some(Min(Max((10 * Q * Q) \div avg_dTdt, self.theta_min_s),
                           self.theta_max_s))
             ELSE None

\* sum((series[i] - mean) * (series[i - k] - mean) for i in range(k, n)), with
\* the deviations counted in hundredths.
RECURSIVE LagProductRange(_, _, _, _, _)
LagProductRange(series, mean, k, lo, hi) ==
    IF lo > hi THEN 0
    ELSE IF lo = hi
    THEN ((series[lo] - mean) \div 10) * ((series[lo - k] - mean) \div 10)
    ELSE LET h == (lo + hi) \div 2
         IN  LagProductRange(series, mean, k, lo, h)
             + LagProductRange(series, mean, k, h + 1, hi)

LagProduct(series, mean, k, i) == LagProductRange(series, mean, k, i, Len(series))

\* The lag search `for k in range(min_lag, max_k)` (lines 302-309): the pair
\* (best_k, best_r) after the lags k..max_k-1; best_k = 0 stands for None.
RECURSIVE LagSearch(_, _, _, _, _, _)
LagSearch(series, mean, k, max_k, best_k, best_r) ==
    IF k >= max_k THEN [best_k |-> best_k, best_r |-> best_r]
    ELSE LET num == LagProduct(series, mean, k, k + 1)
             den == Max(LagProduct(series, mean, 0, 1), 1)
             r == (num * 10) \div Max(den \div 100, 1)
         IN  IF r > best_r
             THEN LagSearch(series, mean, k + 1, max_k, k, r)
             ELSE LagSearch(series, mean, k + 1, max_k, best_k, best_r)

\* Mutant of MinLag: the search starts at the first lag.
MinLagFromOne(dt_mean, dt_win_s, tau_th_est) == 1

\* First lag the search looks at (lines 298-301).
MinLag(dt_mean, dt_win_s, tau_th_est) ==
    LET base == 2 * dt_win_s
        min_lag_sec == IF ~IsNone(tau_th_est)
                       THEN Max(base, (3 * Val(tau_th_est)) \div 2)
                       ELSE base
    IN  Max(1, min_lag_sec \div Max(dt_mean, 1))

\* One past the last lag the search looks at (line 303).
MaxK(n) == Min(n \div 2, 256)

\* Dominant period proxy T_peak from the autocorrelation of the buffered
\* smoothed scores (lines 290-312): None unless a lag is accepted.
TPeakEst(self, dt_mean, dt_win_s, tau_th_est) ==
    IF Len(self.buf_rle_sm) < 32 THEN None
    ELSE LET series == LastN(self.buf_rle_sm, Min(Len(self.buf_rle_sm), 512))
             n == Len(series)
             mean == Sum(series) \div n
             var == LagProduct(series, mean, 0, 1) \div Max(n, 1)
         IN  IF var > 0
             THEN LET best == LagSearch(series, mean,
                                        MinLag(dt_mean, dt_win_s, tau_th_est),
                                        MaxK(n), 0, 0)
                  IN  IF best.best_k # 0 /\ best.best_r >= 300
                      THEN Some(best.best_k * dt_mean)
                      ELSE None
             ELSE None

\* The candidate period (lines 314-319); tau_sus_est is always None in the
\* source, so tau_eff = _harmonic_mean(tau_th_est, None) = tau_th_est.  The
\* square root of the product is taken on tenths of a second.
T0Candidate(self, tau_th_est, t_peak_est) ==
    LET tau_eff == tau_th_est
        T_peak == IF IsNone(t_peak_est) THEN tau_eff ELSE t_peak_est
    IN  IF IsNone(tau_eff)
        THEN (IF IsNone(T_peak) THEN self.t0_s ELSE Val(T_peak))
        ELSE ISqrt((Val(T_peak) \div 100) * (Val(tau_eff) \div 100)) * 100

\* Fixed-point product a * b.
Mul(a, b) == (a * b) \div Q

\* Mutant of RateLimit: the smoothed candidate is taken as it is.
RateLimitOff(t0_s, ema) == ema

\* The +-10% guard (lines 325-328).
RateLimit(t0_s, ema) == Min(Max(ema, Mul(t0_s, 900)), Mul(t0_s, 1100))

\* Clamp and EMA (lines 321-324), then the guard: the new internal period.
NewT0(self, T0_candidate) ==
    LET cand == Min(Max(T0_candidate, self.theta_min_s), self.theta_max_s)
        ema == Mul(800, self.t0_s) + Mul(200, cand)
    IN  RateLimit(self.t0_s, ema)

\* Mutant of ThetaUpdateIfNeeded: the buffers and the timer are kept whether
\* or not the clock is enabled.
ThetaUpdateSwitchIgnored(self0, rle_sm, temp_c, dt_s) ==
    [self0 EXCEPT
       !.buf_rle_sm = Push(@, rle_sm, self0.rb_len),
       !.buf_temp = IF IsNone(temp_c) THEN @ ELSE Push(@, Val(temp_c), self0.rb_len),
       !.buf_dt = Push(@, dt_s, self0.rb_len),
       !.since_theta_update_s = @ + dt_s]

\* Mutant of ThetaUpdateIfNeeded: a re-estimation carries the time beyond the
\* update interval over to the next cycle.
ThetaUpdateKeepsRemainder(self0, rle_sm, temp_c, dt_s) ==
    IF ~self0.enable_theta_clock
    THEN [self0 EXCEPT !.buf_dt = Push(@, dt_s, self0.rb_len)]
    ELSE LET s1 == [self0 EXCEPT
                      !.buf_rle_sm = Push(@, rle_sm, self0.rb_len),
                      !.buf_temp = IF IsNone(temp_c) THEN @
                                   ELSE Push(@, Val(temp_c), self0.rb_len),
                      !.buf_dt = Push(@, dt_s, self0.rb_len),
                      !.since_theta_update_s = @ + dt_s]
         IN  IF s1.since_theta_update_s < s1.theta_update_sec THEN s1
             ELSE LET dt_mean == Sum(s1.buf_dt) \div Len(s1.buf_dt)
                      dt_win_s == dt_mean * Min(Len(s1.buf_dt), 256)
                      tau_th_est == TauThEst(s1, dt_mean)
                      t_peak_est == TPeakEst(s1, dt_mean, dt_win_s, tau_th_est)
                  IN  [s1 EXCEPT
                         !.since_theta_update_s = @ - s1.theta_update_sec,
                         !.t0_s = NewT0(s1, T0Candidate(s1, tau_th_est, t_peak_est))]

\* RLECore._theta_update_if_needed
ThetaUpdateIfNeeded(self0, rle_sm, temp_c, dt_s) ==
    IF ~self0.enable_theta_clock
    THEN [self0 EXCEPT !.buf_dt = Push(@, dt_s, self0.rb_len)]
    ELSE LET s1 == [self0 EXCEPT
                      !.buf_rle_sm = Push(@, rle_sm, self0.rb_len),
                      !.buf_temp = IF IsNone(temp_c) THEN @
                                   ELSE Push(@, Val(temp_c), self0.rb_len),
                      !.buf_dt = Push(@, dt_s, self0.rb_len),
                      !.since_theta_update_s = @ + dt_s]
         IN  IF s1.since_theta_update_s < s1.theta_update_sec THEN s1
             ELSE LET dt_mean == Sum(s1.buf_dt) \div Len(s1.buf_dt)
                      dt_win_s == dt_mean * Min(Len(s1.buf_dt), 256)
                      tau_th_est == TauThEst(s1, dt_mean)
                      t_peak_est == TPeakEst(s1, dt_mean, dt_win_s, tau_th_est)
                  IN  [s1 EXCEPT
                         !.since_theta_update_s = 0,
                         !.t0_s = NewT0(s1, T0Candidate(s1, tau_th_est, t_peak_est))]

\* Mutant of Median: the lower middle element, sorted(buf)[(len(buf) - 1) // 2].
MedianLowerMiddle(buf) ==
    LET k == (Len(buf) - 1) \div 2
    IN  CHOOSE x \in {buf[i] : i \in 1..Len(buf)} :
          /\ Cardinality({i \in 1..Len(buf) : buf[i] < x}) <= k
          /\ Cardinality({i \in 1..Len(buf) : buf[i] <= x}) > k

\* sorted(buf)[len(buf) // 2]
Median(buf) ==
    LET k == Len(buf) \div 2
    IN  CHOOSE x \in {buf[i] : i \in 1..Len(buf)} :
          /\ Cardinality({i \in 1..Len(buf) : buf[i] < x}) <= k
          /\ Cardinality({i \in 1..Len(buf) : buf[i] <= x}) > k

\* Mutant of ThetaGap: the tick is compared with the mean of the buffer.
GapAgainstMean(self, dt_s) ==
    IF self.buf_dt # << >> /\ dt_s > 3 * MeanDt(self) THEN 1 ELSE 0

\* The gap test of compute_rle (lines 383-387).  The guard max(med_dt, 1e-6)
\* acts on a median of 0 or below, where it turns the test into dt_s > 3e-6:
\* for a dt_s on the grid that is dt_s > 0.
ThetaGap(self, dt_s) ==
    IF self.buf_dt # << >> /\ dt_s > 3 * Max(Median(self.buf_dt), 0) THEN 1 ELSE 0

\* Mutant of ThetaStep: a flagged gap restarts the phase.
ThetaStepResetOnGap(self0, dt_s) ==
    IF ~self0.enable_theta_clock
    THEN [self |-> self0, dtheta |-> 0, theta_gap |-> 0]
    ELSE LET dtheta == (dt_s * Q) \div Max(self0.t0_s, 1)
             gap == ThetaGap(self0, dt_s)
         IN  [self |-> [self0 EXCEPT !.theta_c = 0,
                                     !.theta_index = IF gap = 1 THEN 0
                                                     ELSE @ + dtheta],
              dtheta |-> dtheta, theta_gap |-> gap]

\* The phase step of compute_rle (lines 380-392): dtheta, the gap flag and the
\* Kahan update of theta_index.
ThetaStep(self0, dt_s) ==
    IF ~self0.enable_theta_clock
    THEN [self |-> self0, dtheta |-> 0, theta_gap |-> 0]
    ELSE LET dtheta == (dt_s * Q) \div Max(self0.t0_s, 1)
             y == dtheta - self0.theta_c
             t == self0.theta_index + y
         IN  [self |-> [self0 EXCEPT !.theta_c = (t - self0.theta_index) - y,
                                     !.theta_index = t],
              dtheta |-> dtheta,
              theta_gap |-> ThetaGap(self0, dt_s)]


(***************************************************************************)
(* Micro-scale corrector                                                   *)
(***************************************************************************)

\* Mutant of FQ: the quanta are counted from power and time alone, without
\* the phase increment.
FQWithoutPhase(dtheta) == Q

\* F_q = 1 - exp(-min(N_q, 50)), N_q = P * T0 * dtheta / (k_B * T_K).  With
\* P >= 1e-6 W and k_B * T_K below 1e-20 J, N_q is 0 when dtheta is 0 and far
\* above 50 for every dtheta on the grid, where 1 - exp(-50) rounds to 1.0.
FQ(dtheta) == IF Max(dtheta, 0) > 0 THEN Q ELSE 0

\* F_s = 1 / (1 + (lsb / max(sigma_T, 1e-6))^2), sigma_T the rolling stdev of
\* the last 5 temperatures, or 1e-6 with fewer than 2 readings.  A sigma_T
\* below the grid gives a ratio of 1e5 or more and F_s below 1e-9.
FS(self) ==
    LET sigma_T == IF Len(self.temp_hist) >= 2
                   THEN RollingStdev(self.temp_hist, 5) ELSE 0
        ratio == IF sigma_T > 0 THEN (self.sensor_temp_lsb_c * Q) \div sigma_T ELSE 0
    IN  IF sigma_T <= 0 \/ ratio >= 32000 THEN 0
        ELSE (Q * Q) \div (Q + Mul(ratio, ratio))

\* F_p = P / (P + knee), P = max(power_w or 0.0, 1e-6); a P of 1e-6 is 0 on
\* the grid.
FP(self, power_w) ==
    LET P == IF ~IsNone(power_w) THEN Max(Val(power_w), 0) ELSE 0
    IN  (P * Q) \div Max(P + self.low_power_knee_w, 1)

\* The lower clamp of F_mu, 1e-9, on the grid of thousandths.
FMuFloor == 0

\* F_mu = max(1e-9, min(1.0, cbrt(F_q * F_s * F_p)))
FMu(f_q, f_s, f_p) == Max(FMuFloor, Min(Q, ICbrt(f_q * f_s * f_p)))

\* Mutant of ComputeMicroScaleFactor: the enable switch is not consulted.
MicroScaleFactorUnswitched(self, power_w, temp_c, dt_s, dtheta, T0_s) ==
    LET f_q == FQ(dtheta)
        f_s == FS(self)
        f_p == FP(self, power_w)
    IN  [F_mu |-> FMu(f_q, f_s, f_p), F_q |-> f_q, F_s |-> f_s, F_p |-> f_p]

\* RLECore._compute_micro_scale_factor; Gamma and log_Gamma are diagnostics
\* beyond the range of the grid and are not carried.
ComputeMicroScaleFactor(self, power_w, temp_c, dt_s, dtheta, T0_s) ==
    IF ~self.enable_micro_scale
    THEN [F_mu |-> Q, F_q |-> Q, F_s |-> Q, F_p |-> Q]
    ELSE LET f_q == FQ(dtheta)
             f_s == FS(self)
             f_p == FP(self, power_w)
         IN  [F_mu |-> FMu(f_q, f_s, f_p), F_q |-> f_q, F_s |-> f_s, F_p |-> f_p]

\* Mutant of WFromFmu: no ramp, the weight steps from 0 to 1 at 0.98.
WStep(f) == IF f >= 980 THEN 0 ELSE Q

\* _w_from_fmu (lines 403-408)
WFromFmu(f) ==
    IF f >= 980 THEN 0
    ELSE IF f <= 900 THEN Q
    ELSE Max(0, Min(Q, ((980 - f) * Q) \div 80))

(***************************************************************************)
(* Normalization                                                           *)
(***************************************************************************)

\* Mutant of NormalizeRle: the ratio to the expected score is not clamped.
NormalizeWithoutClamp(rle, util_pct) ==
    LET u == Max(0, Min(100 * Q, util_pct))
        expected == IF u <= 67000 THEN 300 + (4700 * u) \div 67000
                    ELSE 5000 - (4850 * (u - 67000)) \div 33000
    IN  (rle * Q) \div Max(expected, 1)

\* RLECore.normalize_rle with device_type = "cpu", as compute_rle calls it.
NormalizeRle(rle, util_pct) ==
    LET baseline == 300
        optimal == 5000
        peak_load == 67000
        u == Max(0, Min(100 * Q, util_pct))
        expected == IF u <= peak_load
                    THEN baseline + ((optimal - baseline) * u) \div peak_load
                    ELSE optimal - ((optimal - baseline \div 2) * (u - peak_load))
                                   \div (100 * Q - peak_load)
    IN  Max(0, Min(Q, (rle * Q) \div Max(expected, 1)))

(***************************************************************************)
(* Collapse detector                                                       *)
(***************************************************************************)

\* Mutant of Warm: the detector arms one sample early.
WarmOneEarly(self) == Len(self.rle_hist) >= Max(self.smooth_n, MinWarm) - 1

\* warm = len(self.rle_hist) >= max(self.smooth_n, 5)
Warm(self) == Len(self.rle_hist) >= Max(self.smooth_n, MinWarm)

\* Mutant of DecayedPeak: the peak is held without decay.
PeakWithoutDecay(self, rle_sm) == Max(rle_sm, self.rolling_peak)

\* self.rolling_peak = max(rle_sm, self.rolling_peak * self.rolling_decay)
DecayedPeak(self, rle_sm) == Max(rle_sm, Mul(self.rolling_peak, self.rolling_decay))

\* under_load (line 477)
UnderLoad(self, util_pct, a_load) ==
    (util_pct > self.util_gate_pct) \/ (a_load > self.a_load_gate)

\* heating (lines 478-480)
Heating(self, temp_c) ==
    IF Len(self.temp_hist) >= 2 /\ ~IsNone(temp_c)
    THEN (self.temp_hist[Len(self.temp_hist)]
          - self.temp_hist[Len(self.temp_hist) - 1]) > 50
    ELSE FALSE

\* Mutant of Gate: either term opens the gate.
GateEither(under_load, heating) == under_load \/ heating

\* gate = under_load and heating (line 481)
Gate(under_load, heating) == under_load /\ heating

\* drop = rle_sm < drop_frac * max(rolling_peak, 1e-6).  A peak of 0 leaves
\* the threshold drop_frac * 1e-6, which lies strictly between 0 and the
\* first grid value.
Drop(self, rle_sm, peak) ==
    IF peak >= 1 THEN rle_sm * Q < self.drop_frac * peak
    ELSE IF self.drop_frac > 0 THEN rle_sm <= 0
    ELSE rle_sm < 0

\* Mutant of NextBelowCtr: a failed sample leaves the counter standing.
BelowCtrNotReset(below_ctr, gate, drop) ==
    IF gate /\ drop THEN below_ctr + 1 ELSE below_ctr

\* The counter update (lines 485-488).
NextBelowCtr(below_ctr, gate, drop) ==
    IF gate /\ drop THEN below_ctr + 1 ELSE 0

\* Mutant of HysteresisSamples: one qualifying sample fewer is asked for.
HysteresisOneShort(self) == self.hysteresis_s - 1

\* hysteresis_samples (lines 490-492)
HysteresisSamples(self) ==
    IF self.enable_theta_clock /\ self.use_theta_windows
       /\ ~IsNone(self.hysteresis_theta) /\ Val(self.hysteresis_theta) > 0
    THEN Max(1, ThetaWindowToN(self, Val(self.hysteresis_theta)))
    ELSE self.hysteresis_s

\* Mutant of Evidence: the counter alone decides.
EvidenceNotRequired(self, a_load, temp_c, t_sustain) == TRUE

\* Evidence requirement (lines 496-497)
Evidence(self, a_load, temp_c, t_sustain) ==
    LET thermal_evidence == (t_sustain < 60 * Q)
                            \/ (~IsNone(temp_c) /\ Val(temp_c) > self.temp_limit_c - 5 * Q)
        power_evidence == a_load > 950
    IN  thermal_evidence \/ power_evidence

\* RLECore._detect_collapse: the instance after the call and the returned flag.
DetectCollapse(self0, rle_sm, util_pct, a_load, temp_c, t_sustain) ==
    IF ~Warm(self0)
    THEN [self |-> [self0 EXCEPT !.rolling_peak = 0, !.below_ctr = 0], collapse |-> 0]
    ELSE LET peak == DecayedPeak(self0, rle_sm)
             gate == Gate(UnderLoad(self0, util_pct, a_load), Heating(self0, temp_c))
             drop == Drop(self0, rle_sm, peak)
             ctr == NextBelowCtr(self0.below_ctr, gate, drop)
             collapsed_flag == ctr >= HysteresisSamples(self0)
         IN  [self |-> [self0 EXCEPT !.rolling_peak = peak, !.below_ctr = ctr],
              collapse |-> IF collapsed_flag /\ Evidence(self0, a_load, temp_c, t_sustain)
                           THEN 1 ELSE 0]


(***************************************************************************)
(* compute_rle                                                             *)
(***************************************************************************)

\* n_smooth (lines 372-374): None unless a theta smoothing window is set.
NSmooth(self) ==
    IF self.enable_theta_clock /\ self.use_theta_windows
       /\ ~IsNone(self.smooth_window_theta) /\ Val(self.smooth_window_theta) > 0
    THEN Some(ThetaWindowToN(self, Val(self.smooth_window_theta)))
    ELSE None

\* rle_raw_core = (eta * stability) / (max(a_load, 1e-6) * (1 + 1/max(t_sustain, 1e-6)))
\* a_load is 0 only together with eta = 0, where the quotient is 0.
RleRawCore(eta, stability, a_load, t_sustain) ==
    (eta * stability * Q)
        \div (Max(a_load, 1) * (Q + (Q * Q) \div Max(t_sustain, 1)))

\* Mutant of CollapseSignal: the detector is fed the corrected score.
CollapseSignalCorrected(rle_smooth_core, rle_smooth_ms) == rle_smooth_ms

\* The score handed to _detect_collapse (line 422).
CollapseSignal(rle_smooth_core, rle_smooth_ms) == rle_smooth_core

\* compute_rle, lines 365-375: the components, the raw core score and its
\* smoothing.  The result carries the arguments of the call and the values
\* computed so far; self is the instance as the code has left it.
CoreScores(self0, util_pct, temp_c, power_w, dt_s) ==
    LET c == ComputeComponents(self0, util_pct, temp_c, power_w, dt_s)
        rle_raw_core == RleRawCore(c.eta, c.stability, c.a_load, c.t_sustain)
        n_smooth == NSmooth(c.self)
        sm == SmoothRle(c.self, rle_raw_core, n_smooth)
    IN  [ self |-> sm.self,
          util_pct |-> util_pct, temp_c |-> temp_c, power_w |-> power_w,
          dt_s |-> dt_s,
          eta |-> c.eta, stability |-> c.stability, a_load |-> c.a_load,
          t_sustain |-> c.t_sustain,
          rle_raw_core |-> rle_raw_core, n_smooth |-> n_smooth,
          rle_smooth_core |-> sm.rle_sm ]

\* compute_rle, lines 378-395: clock buffers and period, theta advance, and
\* the micro-scale factors.
ClockAndFactors(x) ==
    LET s2 == ThetaUpdateIfNeeded(x.self, x.rle_smooth_core, x.temp_c, x.dt_s)
        th == ThetaStep(s2, x.dt_s)
        f == ComputeMicroScaleFactor(th.self, x.power_w, x.temp_c, x.dt_s,
                                     th.dtheta, th.self.t0_s)
    IN  [ self |-> th.self, theta_gap |-> th.theta_gap,
          F_mu |-> f.F_mu, F_q |-> f.F_q, F_s |-> f.F_s, F_p |-> f.F_p ] @@ x

\* Mutant of ScoreVariants: the smoothed corrected score is the smoothed core
\* score times the current factor, not the mean of its own history.
ScoreVariantsScaledSmoothing(x) ==
    LET n_other == IF ~IsNone(x.n_smooth) /\ Val(x.n_smooth) # 0
                   THEN Val(x.n_smooth) ELSE x.self.smooth_n
        rle_raw_ms == Mul(x.rle_raw_core, x.F_mu)
        w == WFromFmu(x.F_mu)
        rle_raw_uni == (x.rle_raw_core * (Q - w) + rle_raw_ms * w) \div Q
        s4 == [x.self EXCEPT !.rle_hist_ms = Append(@, rle_raw_ms),
                             !.rle_hist_uni = Append(@, rle_raw_uni)]
    IN  [ self |-> s4,
          rle_raw_ms |-> rle_raw_ms,
          rle_smooth_ms |-> Mul(x.rle_smooth_core, x.F_mu),
          rle_raw_uni |-> rle_raw_uni,
          rle_smooth_uni |-> RollingMean(s4.rle_hist_uni, n_other) ] @@ x

\* compute_rle, lines 396-412: the corrected and the blended score, each
\* appended to its history and smoothed.  The blend is rounded once, as a
\* whole: rounding its two products separately would let it fall a grid step
\* below the corrected score, which the floating-point sum does not.
ScoreVariants(x) ==
    LET n_other == IF ~IsNone(x.n_smooth) /\ Val(x.n_smooth) # 0
                   THEN Val(x.n_smooth) ELSE x.self.smooth_n
        rle_raw_ms == Mul(x.rle_raw_core, x.F_mu)
        w == WFromFmu(x.F_mu)
        rle_raw_uni == (x.rle_raw_core * (Q - w) + rle_raw_ms * w) \div Q
        s4 == [x.self EXCEPT !.rle_hist_ms = Append(@, rle_raw_ms),
                             !.rle_hist_uni = Append(@, rle_raw_uni)]
    IN  [ self |-> s4,
          rle_raw_ms |-> rle_raw_ms,
          rle_smooth_ms |-> RollingMean(s4.rle_hist_ms, n_other),
          rle_raw_uni |-> rle_raw_uni,
          rle_smooth_uni |-> RollingMean(s4.rle_hist_uni, n_other) ] @@ x

\* compute_rle, lines 414-458: partial efficiencies, normalised scores, the
\* collapse detector and the returned RLEResult.
Report(x) ==
    LET e_th == (x.stability * Q) \div (Q + (Q * Q) \div Max(x.t_sustain, 1))
        e_pw == (x.eta * Q) \div Max(x.a_load, 1)
        d == DetectCollapse(x.self,
                            CollapseSignal(x.rle_smooth_core, x.rle_smooth_ms),
                            x.util_pct, x.a_load, x.temp_c, x.t_sustain)
        T0_s_out == IF x.self.enable_theta_clock THEN x.self.t0_s ELSE 0
        T_sustain_hat == IF x.self.enable_theta_clock /\ T0_s_out > 0
                         THEN (x.t_sustain * Q) \div T0_s_out ELSE 0
    IN  [self |-> d.self,
         res |-> [ rle_raw |-> x.rle_raw_core, rle_smoothed |-> x.rle_smooth_core,
                   rle_raw_ms |-> x.rle_raw_ms, rle_smoothed_ms |-> x.rle_smooth_ms,
                   rle_raw_uni |-> x.rle_raw_uni,
                   rle_smoothed_uni |-> x.rle_smooth_uni,
                   e_th |-> e_th, e_pw |-> e_pw,
                   rle_norm |-> NormalizeRle(x.rle_smooth_core, x.util_pct),
                   rle_norm_ms |-> NormalizeRle(x.rle_smooth_ms, x.util_pct),
                   rle_norm_uni |-> NormalizeRle(x.rle_smooth_uni, x.util_pct),
                   stability |-> x.stability, a_load |-> x.a_load,
                   t_sustain_s |-> x.t_sustain,
                   rolling_peak |-> d.self.rolling_peak, collapse |-> d.collapse,
                   F_mu |-> x.F_mu, F_q |-> x.F_q, F_s |-> x.F_s, F_p |-> x.F_p,
                   T0_s |-> T0_s_out, theta_index |-> x.self.theta_index,
                   T_sustain_hat |-> T_sustain_hat, theta_gap |-> x.theta_gap ]]

\* RLECore.compute_rle: the instance after the call and the returned RLEResult.
ComputeRle(self0, util_pct, temp_c, power_w, dt_s) ==
    Report(ScoreVariants(ClockAndFactors(
        CoreScores(self0, util_pct, temp_c, power_w, dt_s))))

(***************************************************************************)
(* State: the engine instances, and for each the arguments and the return  *)
(* value of its latest compute_rle call (None before the first call).      *)
(***************************************************************************)
VARIABLES core, call, result

vars == << core, call, result >>

Instances == {1, 2}

Sample(util_pct, temp_c, power_w, dt_s) ==
    [util_pct |-> util_pct, temp_c |-> temp_c, power_w |-> power_w, dt_s |-> dt_s]

\* Number of compute_rle calls instance i has served.
Calls(i) == Len(core[i].util_hist)

\* Mutant of Compute: the utilization history is one list shared by the
\* instances, so a call on one appends to the other's as well.
ComputeOnSharedHistory(i, s) ==
    LET r == ComputeRle(core[i], s.util_pct, s.temp_c, s.power_w, s.dt_s)
    IN  /\ core' = [j \in Instances |->
                      IF j = i THEN r.self
                      ELSE [core[j] EXCEPT !.util_hist = r.self.util_hist]]
        /\ call' = [call EXCEPT ![i] = Some(s)]
        /\ result' = [result EXCEPT ![i] = Some(r.res)]

\* Mutant of Compute: a sample without a temperature or a power reading is
\* refused and no result is returned.
ComputeRefusesMissing(i, s) ==
    IF IsNone(s.temp_c) \/ IsNone(s.power_w)
    THEN /\ call' = [call EXCEPT ![i] = Some(s)]
         /\ result' = [result EXCEPT ![i] = None]
         /\ UNCHANGED core
    ELSE LET r == ComputeRle(core[i], s.util_pct, s.temp_c, s.power_w, s.dt_s)
         IN  /\ core' = [core EXCEPT ![i] = r.self]
             /\ call' = [call EXCEPT ![i] = Some(s)]
             /\ result' = [result EXCEPT ![i] = Some(r.res)]

\* res = core.compute_rle(util, temp, power, dt) on instance i.
Compute(i, s) ==
    LET r == ComputeRle(core[i], s.util_pct, s.temp_c, s.power_w, s.dt_s)
    IN  /\ core' = [core EXCEPT ![i] = r.self]
        /\ call' = [call EXCEPT ![i] = Some(s)]
        /\ result' = [result EXCEPT ![i] = Some(r.res)]

(***************************************************************************)
(* Sessions of one instance: configurations and telemetry                  *)
(***************************************************************************)
MaxSamples == 7

\* Fast detector: no smoothing, two qualifying samples, micro-scale on.
FastConfig ==
    [DefaultConfig EXCEPT !.smooth_n = 1, !.hysteresis_s = 2,
                          !.enable_micro_scale = TRUE]

\* Slow detector: a smoothing window longer than the minimum warm-up, one
\* qualifying sample, theta-scaled stability window.
SlowConfig ==
    [DefaultConfig EXCEPT !.smooth_n = 6, !.hysteresis_s = 1,
                          !.use_theta_windows = TRUE]

Configs == {FastConfig, SlowConfig}

\* Telemetry a tick can deliver: an efficient baseline under load, a slow
\* temperature rise at high power, a fast rise to the temperature limit at
\* rated power, and an idle tick without temperature and power sensors.
Samples ==
    { Sample(90000, Some(50000), Some(10000), 30000),
      Sample(90000, Some(51000), Some(80000), 30000),
      Sample(90000, Some(82000), Some(100000), 1000),
      Sample(30000, None, None, 1000) }

\* A session of instance 1 built from configuration set cs; instance 2 stays
\* a fresh default engine.
InitOf(cs) ==
    /\ core \in [Instances -> {NewCore(c) : c \in cs \cup {DefaultConfig}}]
    /\ core[1] \in {NewCore(c) : c \in cs}
    /\ core[2] = NewCore(DefaultConfig)
    /\ call = [i \in Instances |-> None]
    /\ result = [i \in Instances |-> None]

Init == InitOf(Configs)

Tick ==
    /\ Calls(1) < MaxSamples
    /\ \E s \in Samples : Compute(1, s)

Next == Tick

Spec == Init /\ [][Next]_vars

(***************************************************************************)
(* Claims on one session                                                   *)
(***************************************************************************)
Called(i) == ~IsNone(result[i])
Res(i) == Val(result[i])
Arg(i) == Val(call[i])

\* The sample just served was an armed one.
Armed(i) == Called(i) /\ Len(core[i].rle_hist) >= Max(core[i].smooth_n, 5)

\* C1 -- Warm-up suppression: each of the first max(smooth_n,5)-1 calls on a
\* fresh engine returns collapse = 0 and rolling_peak = 0 and leaves the
\* below-threshold counter at 0, whatever the sample values are.
C1_WarmUpSuppression ==
    \A i \in Instances :
        (Calls(i) >= 1 /\ Calls(i) <= Max(core[i].smooth_n, 5) - 1)
            => /\ Res(i).collapse = 0
               /\ Res(i).rolling_peak = 0
               /\ core[i].rolling_peak = 0
               /\ core[i].below_ctr = 0

\* The last warm-up call of an engine whose smoothing window exceeds 5, on a
\* sample that is under load, heating, below-limit margin and at rated power.
C1_Witness ==
    /\ core[1].smooth_n > 5
    /\ Calls(1) = core[1].smooth_n - 1
    /\ Arg(1).util_pct > 60000
    /\ ~IsNone(Arg(1).temp_c) /\ Val(Arg(1).temp_c) > 80000
    /\ Res(1).a_load > 950
    /\ Len(core[1].temp_hist) >= 2
    /\ Last(core[1].temp_hist) - core[1].temp_hist[Len(core[1].temp_hist) - 1] > 50
    /\ Res(1).collapse = 0

\* The evidence terms of the claim, read from the call and its result.
ClaimEvidence(i) ==
    \/ Res(i).t_sustain_s < 60000
    \/ (~IsNone(Arg(i).temp_c) /\ Val(Arg(i).temp_c) > core[i].temp_limit_c - 5000)
    \/ Res(i).a_load > 950

\* C2 -- Evidence requirement: on every armed sample collapse = 1 if and only
\* if the below-threshold counter after the sample's update is >= the
\* hysteresis count and at least one evidence term holds on this sample
\* (t_sustain < 60, a present temperature > temp_limit_c - 5, a_load > 0.95).
C2_EvidenceRequirement ==
    \A i \in Instances :
        Armed(i) =>
            ((Res(i).collapse = 1)
                <=> (core[i].below_ctr >= core[i].hysteresis_s /\ ClaimEvidence(i)))

\* An armed sample that reports a collapse.
C2_Witness ==
    /\ Armed(1)
    /\ Res(1).collapse = 1
    /\ core[1].below_ctr >= core[1].hysteresis_s

\* C5 -- Disabled-feature identity: with enable_micro_scale = false every
\* result has F_mu = F_q = F_s = F_p = 1.0 and corrected and blended variants
\* equal to the core values.
C5_DisabledIdentity ==
    \A i \in Instances :
        (Called(i) /\ ~core[i].enable_micro_scale) =>
            /\ Res(i).F_mu = Q /\ Res(i).F_q = Q /\ Res(i).F_s = Q /\ Res(i).F_p = Q
            /\ Res(i).rle_raw_ms = Res(i).rle_raw
            /\ Res(i).rle_raw_uni = Res(i).rle_raw
            /\ Res(i).rle_smoothed_ms = Res(i).rle_smoothed
            /\ Res(i).rle_smoothed_uni = Res(i).rle_smoothed
            /\ Res(i).rle_norm_ms = Res(i).rle_norm
            /\ Res(i).rle_norm_uni = Res(i).rle_norm
            /\ core[i].rle_hist_ms = core[i].rle_hist
            /\ core[i].rle_hist_uni = core[i].rle_hist

\* A disabled engine past warm-up serving a sample without a power reading,
\* where the enabled corrector would report factors below 1.
C5_Witness ==
    /\ Armed(1)
    /\ ~core[1].enable_micro_scale
    /\ IsNone(Arg(1).power_w)
    /\ Res(1).rle_raw > 0

\* The gate and the drop condition of the sample that led from the unprimed
\* to the primed state of instance i.
StepGate(i) ==
    Gate(UnderLoad(core[i], Arg(i).util_pct, Res(i).a_load)',
         Heating(core[i], Arg(i).temp_c)')
StepDrop(i) == Drop(core[i], Res(i).rle_smoothed, core[i].rolling_peak)'

\* C7 -- Hysteresis counter discipline: on every armed sample the counter
\* increases by exactly 1 if gate and drop both hold and is set to 0 if either
\* is false; it takes no other step and is never negative.
C7_CounterDiscipline ==
    /\ [](\A i \in Instances : core[i].below_ctr >= 0)
    /\ [][\A i \in Instances :
            (core[i]' # core[i] /\ Armed(i)') =>
                core[i]'.below_ctr =
                    IF StepGate(i) /\ StepDrop(i) THEN core[i].below_ctr + 1 ELSE 0]_vars

\* The counter has counted two consecutive armed samples.
C7_Witness ==
    /\ Armed(1)
    /\ core[1].below_ctr = 2

\* C8 -- Rolling-peak law: from the arming sample onward rolling_peak' =
\* max(rle_smoothed, rolling_peak * 0.998); the peak is never negative, never
\* falls below rolling_peak * decay, rises only to the new smoothed score, and
\* an armed detector never returns to warm-up.
C8_RollingPeakLaw ==
    /\ [](\A i \in Instances : core[i].rolling_peak >= 0)
    /\ [][\A i \in Instances :
            /\ (core[i]' # core[i] /\ Armed(i)') =>
                 /\ core[i]'.rolling_peak
                      = Max(Res(i)'.rle_smoothed, Mul(core[i].rolling_peak, 998))
                 /\ core[i]'.rolling_peak >= Mul(core[i].rolling_peak, 998)
                 /\ (core[i]'.rolling_peak > core[i].rolling_peak
                       => core[i]'.rolling_peak = Res(i)'.rle_smoothed)
                 /\ Res(i)'.rolling_peak = core[i]'.rolling_peak
            /\ (Armed(i) => Armed(i)')]_vars

\* An armed sample whose score lies below the decayed peak, the peak having
\* decayed from a positive value.
C8_Witness ==
    /\ Armed(1)
    /\ Res(1).rle_smoothed < core[1].rolling_peak
    /\ core[1].rolling_peak > 0
    /\ core[1].rolling_decay = 998


(***************************************************************************)
(* Sessions below the load gate                                            *)
(***************************************************************************)

\* Telemetry with utilization below 60 % and load factor below 0.75 on every
\* tick: an efficient baseline, a slow and a fast temperature rise at 70 % of
\* rated power, and an idle tick without sensors.
GateFalseSamples ==
    { Sample(50000, Some(50000), Some(5000), 30000),
      Sample(55000, Some(51000), Some(70000), 30000),
      Sample(55000, Some(82000), Some(70000), 1000),
      Sample(30000, None, None, 1000) }

InitGate == InitOf({DefaultConfig, FastConfig})

TickGate ==
    /\ Calls(1) < MaxSamples
    /\ \E s \in GateFalseSamples : Compute(1, s)

NextGate == TickGate

SpecGate == InitGate /\ [][NextGate]_vars

\* C3 -- Gate-false sequences never collapse: when every sample has
\* utilization_pct < 60 and a_load < 0.75, every result has collapse = 0
\* (default gate thresholds), whatever the score, temperatures and t_sustain.
C3_GateFalseNeverCollapses ==
    /\ \A s \in GateFalseSamples : s.util_pct < 60000
    /\ \A i \in Instances :
         Called(i) =>
            /\ Arg(i).util_pct < 60000
            /\ Res(i).a_load < 750
            /\ Res(i).collapse = 0
            /\ core[i].below_ctr = 0

\* An armed gate-false sample on which the score has dropped below 65 % of the
\* peak, the temperature is rising and evidence is present, after a rise on
\* the sample before.
C3_Witness ==
    /\ Armed(1)
    /\ core[1].hysteresis_s = 2
    /\ Res(1).rle_smoothed * Q < 650 * core[1].rolling_peak
    /\ ~IsNone(Arg(1).temp_c)
    /\ Len(core[1].temp_hist) >= 3
    /\ Last(core[1].temp_hist) - core[1].temp_hist[Len(core[1].temp_hist) - 1] > 50
    /\ core[1].temp_hist[Len(core[1].temp_hist) - 1]
         - core[1].temp_hist[Len(core[1].temp_hist) - 2] > 50
    /\ ClaimEvidence(1)
    /\ Res(1).collapse = 0

(***************************************************************************)
(* Two instances fed the same telemetry                                    *)
(***************************************************************************)

\* The micro-scale options of the second instance.
WithMicroScale(c) ==
    [c EXCEPT !.enable_micro_scale = TRUE, !.sensor_temp_lsb_c = 500,
              !.low_power_knee_w = 10000]

WithoutMicroScale(c) == [c EXCEPT !.enable_micro_scale = FALSE]

InitPair ==
    /\ \E c \in Configs :
          core = [i \in Instances |->
                    IF i = 1 THEN NewCore(WithoutMicroScale(c))
                             ELSE NewCore(WithMicroScale(c))]
    /\ call = [i \in Instances |-> None]
    /\ result = [i \in Instances |-> None]

\* Mutant of ComputeBoth: the two engines share their mutable state, so the
\* second call starts from what the first has left.
ComputeBothOnSharedState(s) ==
    LET r1 == ComputeRle(core[1], s.util_pct, s.temp_c, s.power_w, s.dt_s)
        r2 == ComputeRle(r1.self, s.util_pct, s.temp_c, s.power_w, s.dt_s)
    IN  /\ core' = [i \in Instances |-> r2.self]
        /\ call' = [i \in Instances |-> Some(s)]
        /\ result' = [i \in Instances |-> Some(IF i = 1 THEN r1.res ELSE r2.res)]

\* Both instances serve the same sample.
ComputeBoth(s) ==
    LET r1 == ComputeRle(core[1], s.util_pct, s.temp_c, s.power_w, s.dt_s)
        r2 == ComputeRle(core[2], s.util_pct, s.temp_c, s.power_w, s.dt_s)
    IN  /\ core' = [i \in Instances |-> IF i = 1 THEN r1.self ELSE r2.self]
        /\ call' = [i \in Instances |-> Some(s)]
        /\ result' = [i \in Instances |-> Some(IF i = 1 THEN r1.res ELSE r2.res)]

TickPair ==
    /\ Calls(1) < MaxSamples
    /\ \E s \in Samples : ComputeBoth(s)

NextPair == TickPair

SpecPair == InitPair /\ [][NextPair]_vars

\* C4 -- Collapse detection is independent of micro-scale correction: two
\* engines that differ only in the micro-scale options and are fed the same
\* samples agree, sample for sample, on collapse, rolling_peak, the
\* below-threshold counter and the core scores rle_raw, rle_smoothed, rle_norm.
C4_CollapseIgnoresMicroScale ==
    Called(1) =>
        /\ Called(2)
        /\ Res(1).collapse = Res(2).collapse
        /\ Res(1).rolling_peak = Res(2).rolling_peak
        /\ core[1].rolling_peak = core[2].rolling_peak
        /\ core[1].below_ctr = core[2].below_ctr
        /\ Res(1).rle_raw = Res(2).rle_raw
        /\ Res(1).rle_smoothed = Res(2).rle_smoothed
        /\ Res(1).rle_norm = Res(2).rle_norm
        /\ core[1].rle_hist = core[2].rle_hist

\* Both engines report a collapse on a sample where the second engine's
\* corrected score differs from the core score.
C4_Witness ==
    /\ Armed(1) /\ Armed(2)
    /\ ~core[1].enable_micro_scale /\ core[2].enable_micro_scale
    /\ Res(2).F_mu < Q
    /\ Res(2).rle_smoothed_ms # Res(2).rle_smoothed
    /\ core[2].rle_hist_ms # core[1].rle_hist_ms
    /\ Res(1).collapse = 1 /\ Res(2).collapse = 1

(***************************************************************************)
(* A long idle session                                                     *)
(***************************************************************************)
MaxSession == 1030

\* The idle tick: 5 % utilization, 40 C flat, 10 W, 1 s.
IdleSample == Sample(5000, Some(40000), Some(10000), 1000)

InitSession == InitOf({DefaultConfig, WithMicroScale(DefaultConfig)})

TickSession ==
    /\ Calls(1) < MaxSession
    /\ Compute(1, IdleSample)

NextSession == TickSession

SpecSession == InitSession /\ [][NextSession]_vars

\* C6 -- Bounded history: the utilization history, the temperature history
\* and the three score histories each hold at most their capacity of entries
\* (no capacity in the engine exceeds the 1024 of the ring buffers), however
\* long the session is.
C6_BoundedHistory ==
    \A i \in Instances :
        /\ Len(core[i].util_hist) <= RbLen
        /\ Len(core[i].temp_hist) <= RbLen
        /\ Len(core[i].rle_hist) <= RbLen
        /\ Len(core[i].rle_hist_ms) <= RbLen
        /\ Len(core[i].rle_hist_uni) <= RbLen

(***************************************************************************)
(* Sessions that re-estimate the internal period                           *)
(***************************************************************************)
MaxClockSamples == 8

\* Period bounds that exclude the initial guess of 60 s.
MinAboveGuess == [DefaultConfig EXCEPT !.theta_min_s = 100000]
MaxBelowGuess == [DefaultConfig EXCEPT !.theta_max_s = 30000]

ClockConfigs == {DefaultConfig, MinAboveGuess, MaxBelowGuess}

\* Ticks 30 s apart at two temperatures, and an idle tick without sensors.
ClockSamples ==
    { Sample(90000, Some(50000), Some(10000), 30000),
      Sample(90000, Some(51000), Some(80000), 30000),
      Sample(30000, None, None, 1000) }

InitClock == InitOf(ClockConfigs)

TickClock ==
    /\ Calls(1) < MaxClockSamples
    /\ \E s \in ClockSamples : Compute(1, s)

NextClock == TickClock

SpecClock == InitClock /\ [][NextClock]_vars

\* C9 -- Internal period range: in every reachable state, from construction
\* onward and for every theta_min_s and theta_max_s, T0 lies within
\* [theta_min_s, theta_max_s].
C9_PeriodInRange ==
    \A i \in Instances :
        /\ core[i].theta_min_s <= core[i].t0_s
        /\ core[i].t0_s <= core[i].theta_max_s

\* C10 -- Clock rate-limiting: every re-estimation leaves
\* 0.90 * T0_old <= T0_new <= 1.10 * T0_old, and T0 stays strictly positive.
C10_RateLimited ==
    /\ [](\A i \in Instances : core[i].t0_s > 0)
    /\ [][\A i \in Instances :
            /\ Mul(core[i].t0_s, 900) <= core[i]'.t0_s
            /\ core[i]'.t0_s <= Mul(core[i].t0_s, 1100)]_vars

\* A default engine whose thermal estimate pulled the period up twice, each
\* time by the full 10 %.
C10_Witness ==
    /\ core[1].theta_min_s = 5000 /\ core[1].theta_max_s = 600000
    /\ core[1].t0_s = Mul(InitialT0, 1100)
    /\ Len(core[1].buf_temp) >= 8


\* C11 -- Monotone phase: with the clock enabled and every dt_s > 0,
\* theta_index never decreases from one result to the next and advances on
\* every sample by dt_s / T0; a sample flagged as a gap advances it like any
\* other sample and never resets or rewinds it.
C11_MonotonePhase ==
    [][\A i \in Instances :
         (core[i]' # core[i] /\ core[i].enable_theta_clock) =>
            /\ Arg(i)'.dt_s > 0
            /\ Res(i)'.theta_index
                 = core[i].theta_index + (Arg(i)'.dt_s * Q) \div core[i]'.t0_s
            /\ Res(i)'.theta_index > core[i].theta_index
            /\ core[i]'.theta_index = Res(i)'.theta_index
            /\ (Called(i) => Res(i)'.theta_index >= Res(i).theta_index)]_vars

\* A sample flagged as a gap, served after the period has been re-estimated
\* and the phase has advanced over earlier samples.
C11_Witness ==
    /\ Called(1)
    /\ Res(1).theta_gap = 1
    /\ core[1].t0_s # InitialT0
    /\ Calls(1) >= 5
    /\ Res(1).theta_index > (Arg(1).dt_s * Q) \div core[1].t0_s

\* C12 -- Gap rule: with the clock enabled a result has theta_gap = 1 exactly
\* when the sample's dt_s exceeds 3 times the median of the dt buffer (which
\* holds the sample's own dt_s by then), and 0 otherwise; a gap sample is
\* processed like any other: it is in every history and has a full result.
C12_GapRule ==
    \A i \in Instances :
        Called(i) =>
            /\ Res(i).theta_gap \in {0, 1}
            /\ core[i].enable_theta_clock =>
                 /\ (Res(i).theta_gap = 1)
                      <=> (Arg(i).dt_s > 3 * Median(core[i].buf_dt))
                 /\ Len(core[i].buf_rle_sm) = Calls(i)
            /\ ~core[i].enable_theta_clock => Res(i).theta_gap = 0
            /\ Last(core[i].buf_dt) = Arg(i).dt_s
            /\ Len(core[i].rle_hist) = Calls(i)
            /\ Last(core[i].rle_hist) = Res(i).rle_raw

\* A 30 s tick after a run of 1 s ticks: flagged, and processed.
C12_Witness ==
    /\ Called(1)
    /\ Res(1).theta_gap = 1
    /\ Arg(1).dt_s = 30000
    /\ Median(core[1].buf_dt) = 1000
    /\ Len(core[1].buf_dt) = Calls(1)
    /\ Last(core[1].rle_hist) = Res(1).rle_raw


(***************************************************************************)
(* Sessions with the clock disabled                                        *)
(***************************************************************************)

\* The default engine and the fast detector, each without the clock; the
\* second also asks for theta windows, which need the clock.
ClockOffConfigs ==
    { [DefaultConfig EXCEPT !.enable_theta_clock = FALSE],
      [FastConfig EXCEPT !.enable_theta_clock = FALSE,
                         !.use_theta_windows = TRUE] }

InitNoClock == InitOf(ClockOffConfigs)

TickNoClock ==
    /\ Calls(1) < MaxClockSamples
    /\ \E s \in ClockSamples : Compute(1, s)

NextNoClock == TickNoClock

SpecNoClock == InitNoClock /\ [][NextNoClock]_vars

\* C13 -- Disabled clock is a no-op: with enable_theta_clock = false every
\* result reports the constant T0_s, theta_gap = 0 and theta_index = 0, and
\* each call leaves the internal period, the phase accumulator with its
\* compensation term, the re-estimation timer and the score and temperature
\* ring buffers unchanged; only the dt buffer takes the sample's dt_s.
C13_DisabledClockNoOp ==
    /\ [](\A i \in Instances :
            (Called(i) /\ ~core[i].enable_theta_clock) =>
                /\ Res(i).T0_s = 0
                /\ Res(i).theta_gap = 0
                /\ Res(i).theta_index = 0
                /\ Res(i).T_sustain_hat = 0
                /\ Len(core[i].buf_dt) = Calls(i)
                /\ Last(core[i].buf_dt) = Arg(i).dt_s)
    /\ [][\A i \in Instances :
            ~core[i].enable_theta_clock =>
                /\ core[i]'.t0_s = core[i].t0_s
                /\ core[i]'.theta_index = core[i].theta_index
                /\ core[i]'.theta_c = core[i].theta_c
                /\ core[i]'.since_theta_update_s = core[i].since_theta_update_s
                /\ core[i]'.buf_rle_sm = core[i].buf_rle_sm
                /\ core[i]'.buf_temp = core[i].buf_temp]_vars

\* A 30 s tick with a temperature reading after a run of 1 s ticks, at least
\* one update period into the session: with the clock on it would be buffered,
\* flagged as a gap and would have triggered a re-estimation.
C13_Witness ==
    /\ Called(1)
    /\ ~core[1].enable_theta_clock
    /\ Arg(1).dt_s = 30000
    /\ ~IsNone(Arg(1).temp_c)
    /\ Median(core[1].buf_dt) = 1000
    /\ Sum(core[1].buf_dt) >= core[1].theta_update_sec
    /\ Res(1).theta_gap = 0
    /\ core[1].buf_temp = << >>


(***************************************************************************)
(* Control mapper                                                          *)
(***************************************************************************)

\* ControlDecision(state, cpu_freq_limit_ghz, gpu_freq_limit_ghz,
\* fan_speed_pct, power_limit_pct, workload_reduction_pct); frequencies in
\* thousandths of a GHz, percentages as integers.
Decision(state, cpu, gpu, fan, power, workload) ==
    [state |-> state, cpu_freq_limit_ghz |-> cpu, gpu_freq_limit_ghz |-> gpu,
     fan_speed_pct |-> fan, power_limit_pct |-> power,
     workload_reduction_pct |-> workload]

\* Mutant of ControlDecision: the prediction falls back to the current score
\* by `rle_predicted or rle_current`, which also replaces a prediction of 0.
ControlDecisionOrFallback(rle_current, rle_predicted, thermal_headroom_c) ==
    LET pred == IF ~IsNone(rle_predicted) /\ Val(rle_predicted) # 0
                THEN Val(rle_predicted) ELSE rle_current
        headroom_bonus == IF ~IsNone(thermal_headroom_c)
                             /\ Val(thermal_headroom_c) > 5 * Q
                          THEN -10 ELSE 0
    IN  IF rle_current < 200 \/ pred < 100
        THEN Decision("emergency", Some(800), Some(200),
                      Some(Max(0, 100 + headroom_bonus)), Some(50), Some(50))
        ELSE IF rle_current < 400 \/ pred < 300
        THEN Decision("aggressive", Some(1200), Some(500),
                      Some(Max(0, 80 + headroom_bonus)), Some(70), Some(25))
        ELSE IF rle_current < 600 \/ pred < 500
        THEN Decision("moderate", Some(2500), Some(900),
                      Some(Max(0, 60 + headroom_bonus)), Some(85), Some(10))
        ELSE Decision("maintain", None, None, None, None, None)

\* RLECore.control_decision
ControlDecision(rle_current, rle_predicted, thermal_headroom_c) ==
    LET pred == IF ~IsNone(rle_predicted) THEN Val(rle_predicted) ELSE rle_current
        headroom_bonus == IF ~IsNone(thermal_headroom_c)
                             /\ Val(thermal_headroom_c) > 5 * Q
                          THEN -10 ELSE 0
    IN  IF rle_current < 200 \/ pred < 100
        THEN Decision("emergency", Some(800), Some(200),
                      Some(Max(0, 100 + headroom_bonus)), Some(50), Some(50))
        ELSE IF rle_current < 400 \/ pred < 300
        THEN Decision("aggressive", Some(1200), Some(500),
                      Some(Max(0, 80 + headroom_bonus)), Some(70), Some(25))
        ELSE IF rle_current < 600 \/ pred < 500
        THEN Decision("moderate", Some(2500), Some(900),
                      Some(Max(0, 60 + headroom_bonus)), Some(85), Some(10))
        ELSE Decision("maintain", None, None, None, None, None)

\* Scores 0.00, 0.05, ... handed to the mapper.
MaxScoreStep == 20

Scores == {50 * k : k \in 0..MaxScoreStep}

Headrooms == {None, Some(3000), Some(10000)}

InitControl == InitOf({DefaultConfig})

\* d = core.control_decision(rle_current, rle_predicted, thermal_headroom_c):
\* the arguments and the decision take the place of the latest call and result.
Decide ==
    \E cur \in Scores, pred \in {None} \cup {Some(p) : p \in Scores},
       head \in Headrooms :
        /\ call' = [call EXCEPT ![1] = Some([rle_current |-> cur,
                                             rle_predicted |-> pred,
                                             thermal_headroom_c |-> head])]
        /\ result' = [result EXCEPT ![1] = Some(ControlDecision(cur, pred, head))]
        /\ UNCHANGED core

NextControl == Decide

SpecControl == InitControl /\ [][NextControl]_vars

\* C14 -- Control mapper evaluates min(current, predicted): for every pair of
\* scores control_decision(current, predicted) returns the state of
\* control_decision(m, m) with m = min(current, predicted), an absent
\* prediction counting as equal to current.
C14_DecisionOfMinimum ==
    Called(1) =>
        LET pred == IF IsNone(Arg(1).rle_predicted) THEN Arg(1).rle_current
                    ELSE Val(Arg(1).rle_predicted)
            m == Min(Arg(1).rle_current, pred)
        IN  Res(1).state
              = ControlDecision(m, Some(m), Arg(1).thermal_headroom_c).state


(***************************************************************************)
(* Sessions on degenerate telemetry                                        *)
(***************************************************************************)
MaxEdgeSamples == 6

\* Utilization above 100 % with zero power; negative utilization with no
\* temperature and negative power; a temperature above the limit with no
\* power reading; and a loaded tick at rated power.
EdgeSamples ==
    { Sample(150000, Some(50000), Some(0), 1000),
      Sample(-10000, None, Some(-5000), 1000),
      Sample(50000, Some(90000), None, 1000),
      Sample(95000, Some(60000), Some(100000), 1000) }

InitEdge == InitOf({DefaultConfig, WithMicroScale(DefaultConfig)})

TickEdge ==
    /\ Calls(1) < MaxEdgeSamples
    /\ \E s \in EdgeSamples : Compute(1, s)

NextEdge == TickEdge

SpecEdge == InitEdge /\ [][NextEdge]_vars

\* C15 -- Normalization boundedness: on every sample of every sequence the
\* three normalized scores of the result lie in [0, 1], also for utilization
\* values outside [0, 100].
C15_NormalizedScoresBounded ==
    \A i \in Instances :
        Called(i) =>
            /\ 0 <= Res(i).rle_norm /\ Res(i).rle_norm <= Q
            /\ 0 <= Res(i).rle_norm_ms /\ Res(i).rle_norm_ms <= Q
            /\ 0 <= Res(i).rle_norm_uni /\ Res(i).rle_norm_uni <= Q

\* A sample with utilization above 100 % whose smoothed score exceeds the
\* expected score, so that the upper clamp decides the result.
C15_Witness ==
    /\ Called(1)
    /\ Arg(1).util_pct > 100 * Q
    /\ Res(1).rle_smoothed > 150
    /\ Res(1).rle_norm = Q


\* The fields of the returned record that the model carries.
ResultFields ==
    { "rle_raw", "rle_smoothed", "rle_raw_ms", "rle_smoothed_ms", "rle_raw_uni",
      "rle_smoothed_uni", "e_th", "e_pw", "rle_norm", "rle_norm_ms",
      "rle_norm_uni", "stability", "a_load", "t_sustain_s", "rolling_peak",
      "collapse", "F_mu", "F_q", "F_s", "F_p", "T0_s", "theta_index",
      "T_sustain_hat", "theta_gap" }

\* C16 -- No error state: with the default configuration every call returns
\* a complete numeric result, whether temperature is present or missing,
\* power present, missing, zero or negative, utilization inside or outside
\* [0, 100], and whatever history there is; this holds after every sequence
\* of such calls, so no call leaves a state in which a later call fails.
C16_NoErrorState ==
    \A i \in Instances :
        ~IsNone(call[i]) =>
            /\ Called(i)
            /\ DOMAIN Res(i) = ResultFields
            /\ \A f \in ResultFields : Res(i)[f] \in Int
            /\ Res(i).collapse \in {0, 1}
            /\ Res(i).rle_raw >= 0 /\ Res(i).a_load >= 0
            /\ Res(i).stability > 0 /\ Res(i).t_sustain_s >= Q
            /\ Calls(i) >= 1
            /\ Len(core[i].rle_hist) = Calls(i)
            /\ Last(core[i].util_hist) \in 0..(100 * Q)

\* A default engine that has served, in this order or another, a sample with
\* no temperature and negative power, one with no power, and one with
\* utilization above 100 % and zero power, the last of them on a temperature
\* history of fewer than two readings.
C16_Witness ==
    /\ Called(1)
    /\ ~core[1].enable_micro_scale
    /\ Calls(1) >= 3
    /\ Len(core[1].temp_hist) = 1
    /\ \E k \in 1..Calls(1) : core[1].util_hist[k] = 100 * Q
    /\ IsNone(Arg(1).temp_c)
    /\ Val(Arg(1).power_w) < 0
    /\ Res(1).t_sustain_s = core[1].max_t_sustain_s

\* C19 -- Sustain-time range: t_sustain_s equals max_t_sustain_s on every
\* sample at which the temperature history holds fewer than 2 readings; on
\* every other sample it lies in [1.0, max_t_sustain_s], and it is exactly
\* 1.0 when the last temperature is at or above temp_limit_c.
C19_SustainTimeRange ==
    \A i \in Instances :
        (Called(i) /\ core[i].max_t_sustain_s >= Q) =>
            IF Len(core[i].temp_hist) < 2
            THEN Res(i).t_sustain_s = core[i].max_t_sustain_s
            ELSE /\ Q <= Res(i).t_sustain_s
                 /\ Res(i).t_sustain_s <= core[i].max_t_sustain_s
                 /\ (Last(core[i].temp_hist) >= core[i].temp_limit_c
                       => Res(i).t_sustain_s = Q)

\* A reading above the limit after a lower one: the quotient is negative and
\* the result is the floor of 1.0.
C19_Witness ==
    /\ Called(1)
    /\ Len(core[1].temp_hist) >= 2
    /\ ~IsNone(Arg(1).temp_c)
    /\ Last(core[1].temp_hist) > core[1].temp_limit_c
    /\ core[1].temp_hist[Len(core[1].temp_hist) - 1] < core[1].temp_limit_c
    /\ Res(1).t_sustain_s = Q


(***************************************************************************)
(* Two instances of one configuration fed the same telemetry               *)
(***************************************************************************)
MaxTwinSamples == 6

\* The default engine, and a detector that needs one qualifying sample.
TwinConfigs == {DefaultConfig, [FastConfig EXCEPT !.hysteresis_s = 1]}

InitTwin ==
    /\ \E c \in TwinConfigs : core = [i \in Instances |-> NewCore(c)]
    /\ call = [i \in Instances |-> None]
    /\ result = [i \in Instances |-> None]

TickTwin ==
    /\ Calls(1) < MaxTwinSamples
    /\ \E s \in Samples : ComputeBoth(s)

NextTwin == TickTwin

SpecTwin == InitTwin /\ [][NextTwin]_vars

MaxDeviceSamples == 3

\* The monitor's engines (hardware_monitor.py, lines 402-405 and 420-423):
\* rated power and temperature limit per device, micro-scale as asked for.
CpuConfig(ms) ==
    [DefaultConfig EXCEPT !.rated_power_w = 125000, !.temp_limit_c = 80000,
                          !.enable_micro_scale = ms]

GpuConfig(ms) ==
    [DefaultConfig EXCEPT !.rated_power_w = 200000, !.temp_limit_c = 83000,
                          !.enable_micro_scale = ms]

\* A moderate tick, a hot tick near rated GPU power, and a tick without
\* temperature and power sensors.
DeviceSamples ==
    { Sample(90000, Some(50000), Some(50000), 1000),
      Sample(95000, Some(79000), Some(190000), 1000),
      Sample(30000, None, None, 1000) }

InitDevices ==
    /\ \E ms \in BOOLEAN :
          core = [i \in Instances |->
                    IF i = 1 THEN NewCore(CpuConfig(ms)) ELSE NewCore(GpuConfig(ms))]
    /\ call = [i \in Instances |-> None]
    /\ result = [i \in Instances |-> None]

TickCpu ==
    /\ Calls(1) < MaxDeviceSamples
    /\ \E s \in DeviceSamples : Compute(1, s)

TickGpu ==
    /\ Calls(2) < MaxDeviceSamples
    /\ \E s \in DeviceSamples : Compute(2, s)

NextDevices == TickCpu \/ TickGpu

SpecDevices == InitDevices /\ [][NextDevices]_vars

\* C18 -- Instance isolation: whatever the interleaving of the calls on two
\* engines, a call on one engine reads and writes only that engine: the
\* other engine's state and latest result stay as they are, and the called
\* engine's new state and result are those compute_rle yields from its own
\* state and the sample.  Hence each engine's result sequence is the one it
\* produces when run alone on its own samples.
C18_InstanceIsolation ==
    [][\A i \in Instances :
         core[i]' # core[i] =>
            /\ \A j \in Instances \ {i} :
                 /\ core[j]' = core[j]
                 /\ result[j]' = result[j]
                 /\ call[j]' = call[j]
            /\ core[i]' = ComputeRle(core[i], Arg(i)'.util_pct, Arg(i)'.temp_c,
                                     Arg(i)'.power_w, Arg(i)'.dt_s).self
            /\ Res(i)' = ComputeRle(core[i], Arg(i)'.util_pct, Arg(i)'.temp_c,
                                    Arg(i)'.power_w, Arg(i)'.dt_s).res]_vars

\* Both engines have served three samples, the latest one the same hot tick,
\* and report different results for it.
C18_Witness ==
    /\ Called(1) /\ Called(2)
    /\ Calls(1) = 3 /\ Calls(2) = 3
    /\ Arg(1) = Arg(2)
    /\ Arg(1).util_pct = 95000
    /\ Res(1).a_load > Q /\ Res(2).a_load < Q
    /\ core[1].temp_hist # core[2].temp_hist


(***************************************************************************)
(* Sessions at one utilization level, with the trace recorded              *)
(***************************************************************************)
MaxTraceSamples == 13

\* Utilization of the session: above the load gate, or none at all.
Levels == {90000, 0}

\* What a tick can bring: 10 W at a flat temperature (the baseline), 80 W and
\* 100 W with the temperature 0.1 C above the previous reading.
BaselineKind == [power_w |-> 10000, dtemp |-> 0]

TraceKinds ==
    { BaselineKind, [power_w |-> 80000, dtemp |-> 100],
      [power_w |-> 100000, dtemp |-> 100] }

\* The sample of a tick: the first reading is 40 C, ticks are 1 s apart.
TraceSample(level, kind) ==
    Sample(level,
           Some(IF core[1].temp_hist = << >> THEN 40000
                ELSE Last(core[1].temp_hist) + kind.dtemp),
           Some(kind.power_w), 1000)

\* The samples served and the results returned so far in the session; they
\* are recorded in the slots of instance 2, which serves no calls here.
SampleLog == IF IsNone(call[2]) THEN << >> ELSE Val(call[2])
ResultLog == IF IsNone(result[2]) THEN << >> ELSE Val(result[2])

\* res = core.compute_rle(...) on instance 1, recorded.
ComputeLogged(s) ==
    LET r == ComputeRle(core[1], s.util_pct, s.temp_c, s.power_w, s.dt_s)
    IN  /\ core' = [core EXCEPT ![1] = r.self]
        /\ call' = [i \in Instances |->
                      IF i = 1 THEN Some(s) ELSE Some(Append(SampleLog, s))]
        /\ result' = [i \in Instances |->
                        IF i = 1 THEN Some(r.res) ELSE Some(Append(ResultLog, r.res))]

InitTrace == InitOf({DefaultConfig})

\* The utilization level is chosen with the first tick; the ticks before the
\* detector arms are baseline ticks.
TickTrace ==
    /\ Calls(1) < MaxTraceSamples
    /\ \E level \in Levels, kind \in TraceKinds :
          /\ Calls(1) > 0 => level = Last(core[1].util_hist)
          /\ Calls(1) < MinWarm - 1 => kind = BaselineKind
          /\ ComputeLogged(TraceSample(level, kind))

NextTrace == TickTrace

SpecTrace == InitTrace /\ [][NextTrace]_vars

\* Gate, drop condition and evidence at sample k of the trace, from the
\* sample and the result of that call.
GateAt(k) ==
    /\ \/ SampleLog[k].util_pct > 60000
       \/ ResultLog[k].a_load > 750
    /\ k >= 2
    /\ Val(SampleLog[k].temp_c) - Val(SampleLog[k - 1].temp_c) > 50

DropAt(k) ==
    IF ResultLog[k].rolling_peak >= 1
    THEN ResultLog[k].rle_smoothed * Q < 650 * ResultLog[k].rolling_peak
    ELSE ResultLog[k].rle_smoothed <= 0

EvidenceAt(k) ==
    \/ ResultLog[k].t_sustain_s < 60000
    \/ Val(SampleLog[k].temp_c) > 80000
    \/ ResultLog[k].a_load > 950

C21_DropCondition ==
    LET t == Len(ResultLog)
    IN  (t >= MinWarm /\ GateAt(t)) =>
          /\ (core[1].below_ctr > 0)
               <=> (ResultLog[t].rle_smoothed * Q < 650 * ResultLog[t].rolling_peak)
          /\ (ResultLog[t].rle_smoothed = ResultLog[t].rolling_peak)
               => core[1].below_ctr = 0


(***************************************************************************)
(* Sessions with temperature dropouts under load                           *)
(***************************************************************************)
MaxSensorSamples == 7

\* Default smoothing, and no smoothing with two qualifying samples.
SensorConfigs == {DefaultConfig, WithoutMicroScale(FastConfig)}

\* 90 % utilization throughout: an efficient baseline at 50 C, rated power at
\* 51 C and at 52 C, and rated power with the temperature reading missing.
SensorSamples ==
    { Sample(90000, Some(50000), Some(10000), 1000),
      Sample(90000, Some(51000), Some(100000), 1000),
      Sample(90000, Some(52000), Some(100000), 1000),
      Sample(90000, None, Some(100000), 1000) }

InitSensor == InitOf(SensorConfigs)

TickSensor ==
    /\ Calls(1) < MaxSensorSamples
    /\ \E s \in SensorSamples : Compute(1, s)

NextSensor == TickSensor

SpecSensor == InitSensor /\ [][NextSensor]_vars

\* The sample just served was under load and its smoothed score lies below
\* drop_frac of a positive peak: the counter then shows the heating term.
LoadAndDrop(i) ==
    /\ Armed(i)
    /\ \/ Arg(i).util_pct > core[i].util_gate_pct
       \/ Res(i).a_load > core[i].a_load_gate
    /\ core[i].rolling_peak > 0
    /\ Res(i).rle_smoothed * Q < core[i].drop_frac * core[i].rolling_peak

\* The temperature history holds two readings and the last exceeds the one
\* before it by more than 0.05.
ReadingRose(i) ==
    /\ Len(core[i].temp_hist) >= 2
    /\ core[i].temp_hist[Len(core[i].temp_hist)]
         - core[i].temp_hist[Len(core[i].temp_hist) - 1] > 50

\* C22 -- Heating gate: on every armed sample the heating term is
\* true if and only if the temperature history holds at least 2 readings and
\* the last exceeds the one before it by more than 0.05, whether or not the
\* current sample itself carries a temperature reading.
C22_HeatingGate ==
    \A i \in Instances :
        /\ LoadAndDrop(i) => ((core[i].below_ctr > 0) <=> ReadingRose(i))
        /\ (Armed(i) /\ ~ReadingRose(i)) => core[i].below_ctr = 0


(***************************************************************************)
(* Sessions with the default and with the shortest update interval         *)
(***************************************************************************)
MaxCadenceSamples == 8

\* The default interval of 60 s, and a requested interval of 1 s, which the
\* constructor raises to 5 s.
CadenceConfigs == {DefaultConfig, [DefaultConfig EXCEPT !.theta_update_sec = 1000]}

InitCadence == InitOf(CadenceConfigs)

TickCadence ==
    /\ Calls(1) < MaxCadenceSamples
    /\ \E s \in ClockSamples : Compute(1, s)

NextCadence == TickCadence

SpecCadence == InitCadence /\ [][NextCadence]_vars

\* C23 -- Re-estimation cadence: with the clock enabled, T0 can change only on
\* a sample at which the dt_s accumulated since the last re-estimation, this
\* sample included, reaches the update interval (default 60 s, at least 5 s);
\* on that sample the accumulator is reset to 0, and on every other sample T0
\* is unchanged and the accumulator grows by dt_s.
C23_ReestimationCadence ==
    /\ [](\A i \in Instances : core[i].theta_update_sec >= 5000)
    /\ [][\A i \in Instances :
            (core[i]' # core[i] /\ core[i].enable_theta_clock) =>
               IF core[i].since_theta_update_s + Arg(i)'.dt_s >= core[i].theta_update_sec
               THEN core[i]'.since_theta_update_s = 0
               ELSE /\ core[i]'.t0_s = core[i].t0_s
                    /\ core[i]'.since_theta_update_s
                         = core[i].since_theta_update_s + Arg(i)'.dt_s]_vars

\* An engine with the 5 s interval right after a re-estimation that moved T0:
\* every 30 s sample re-estimates, and the eighth reading gives the first
\* thermal estimate.
C23_Witness ==
    /\ core[1].theta_update_sec = 5000
    /\ core[1].t0_s # InitialT0
    /\ core[1].since_theta_update_s = 0
    /\ Arg(1).dt_s = 30000


(***************************************************************************)
(* A monitor session longer than the ring buffers                          *)
(***************************************************************************)
MaxRingSamples == 1027

\* Rolling.__init__ and Rolling.add (hardware_monitor)
NewRolling(n) == [n |-> n, buf |-> << >>]

RollingAdd(r, x) == [r EXCEPT !.buf = Push(@, x, r.n)]

\* The monitor's smoothing window and its utilization window.
RollingSizes == {5, 120}

\* The telemetry of tick k: utilization, temperature and tick length all move
\* with k (the tick length through 7 values, 1024 not being a multiple of 7),
\* so that a window shifted by one tick is a different window; the
\* temperature reading may be missing.
RingSample(k, reading) ==
    Sample((k % 100) * 1000,
           IF reading THEN Some(40000 + k) ELSE None,
           Some(50000), 1000 + (k % 7))

\* The ticks at which the temperature sensor may fail: the first two, and
\* those after the ring buffers have filled.
SensorMayFail(k) == k <= 2 \/ k > RbLen

\* The ticks served so far, each with the smoothed score it produced; kept in
\* the call slot of instance 2, whose place in core holds the monitor's
\* Rolling window.
RingLog == IF IsNone(call[2]) THEN << >> ELSE Val(call[2])

InitRing ==
    /\ core \in [Instances -> {NewCore(DefaultConfig)}
                                \cup {NewRolling(n) : n \in RollingSizes}]
    /\ core[1] = NewCore(DefaultConfig)
    /\ core[2] \in {NewRolling(n) : n \in RollingSizes}
    /\ call = [i \in Instances |-> None]
    /\ result = [i \in Instances |-> None]

\* One tick of the monitor loop: the utilization goes into the Rolling window
\* and the sample into the engine.
TickRing ==
    /\ Calls(1) < MaxRingSamples
    /\ \E reading \in BOOLEAN :
          /\ ~SensorMayFail(Calls(1) + 1) => reading
          /\ LET s == RingSample(Calls(1) + 1, reading)
                 r == ComputeRle(core[1], s.util_pct, s.temp_c, s.power_w, s.dt_s)
             IN  /\ core' = [i \in Instances |->
                               IF i = 1 THEN r.self ELSE RollingAdd(core[2], s.util_pct)]
                 /\ call' = [i \in Instances |->
                               IF i = 1 THEN Some(s)
                               ELSE Some(Append(RingLog,
                                                [s |-> s, rle_sm |-> r.res.rle_smoothed]))]
                 /\ result' = [i \in Instances |-> IF i = 1 THEN Some(r.res) ELSE None]

NextRing == TickRing

SpecRing == InitRing /\ [][NextRing]_vars

\* The values pushed so far into each buffer, in push order.
PushedDt == [k \in 1..Len(RingLog) |-> RingLog[k].s.dt_s]
PushedScores == [k \in 1..Len(RingLog) |-> RingLog[k].rle_sm]
PushedUtil == [k \in 1..Len(RingLog) |-> RingLog[k].s.util_pct]
PushedTemps ==
    LET with == SelectSeq(RingLog, LAMBDA e : ~IsNone(e.s.temp_c))
    IN  [k \in 1..Len(with) |-> Val(with[k].s.temp_c)]

\* The most recent min(number of pushes, capacity) values, in push order.
MostRecent(pushed, cap) ==
    SubSeq(pushed, Len(pushed) - Min(Len(pushed), cap) + 1, Len(pushed))

\* C24 -- FIFO capped buffers: after any sequence of pushes a capped buffer
\* (the clock estimator's score, temperature and dt ring buffers of capacity
\* 1024, and the monitor's Rolling of capacity n) holds exactly the most recent
\* min(number of pushes, capacity) values in push order; a push on a full
\* buffer removes the oldest value and nothing else.
C24_FifoBuffers ==
    /\ core[1].rb_len = 1024
    /\ core[1].buf_dt = MostRecent(PushedDt, 1024)
    /\ core[1].buf_rle_sm = MostRecent(PushedScores, 1024)
    /\ core[1].buf_temp = MostRecent(PushedTemps, 1024)
    /\ core[2].buf = MostRecent(PushedUtil, core[2].n)

\* All four buffers have evicted: 1026 ticks, one of the first two without a
\* temperature reading, so the temperature buffer has taken 1025 readings.
C24_Witness ==
    /\ Len(RingLog) = 1026
    /\ Len(PushedTemps) = 1025
    /\ Len(core[1].buf_temp) = 1024
    /\ core[1].buf_temp[1] # PushedTemps[1]
    /\ Len(core[1].buf_dt) = 1024
    /\ core[1].buf_dt[1] = 1003
    /\ Len(core[2].buf) = 120


\* C25 -- Blended variant: for every sample rle_raw_uni = rle_raw * (1 - w)
\* + rle_raw_ms * w, where w = 0 when F_mu >= 0.98, w = 1 when F_mu <= 0.90
\* and w = (0.98 - F_mu) / 0.08 in between; so the blended raw score equals
\* the core score for F_mu >= 0.98, equals the corrected score for
\* F_mu <= 0.90, and always lies between the corrected and the core score.
C25_BlendedVariant ==
    \A i \in Instances :
        Called(i) =>
          LET F == Res(i).F_mu
              w == IF F >= 980 THEN 0
                   ELSE IF F <= 900 THEN Q
                   ELSE ((980 - F) * Q) \div 80
          IN  /\ w \in 0..Q
              /\ Res(i).rle_raw_uni
                   = (Res(i).rle_raw * (Q - w) + Res(i).rle_raw_ms * w) \div Q
              /\ F >= 980 => Res(i).rle_raw_uni = Res(i).rle_raw
              /\ F <= 900 => Res(i).rle_raw_uni = Res(i).rle_raw_ms
              /\ Res(i).rle_raw_ms <= Res(i).rle_raw_uni
              /\ Res(i).rle_raw_uni <= Res(i).rle_raw

\* A sample on the ramp: F_mu strictly between 0.90 and 0.98 and the blended
\* score strictly between the corrected and the core score.
C25_Witness ==
    /\ Called(1)
    /\ Res(1).F_mu > 900 /\ Res(1).F_mu < 980
    /\ Res(1).rle_raw_ms < Res(1).rle_raw_uni
    /\ Res(1).rle_raw_uni < Res(1).rle_raw


\* The corrected scores the smoothing window of instance i holds.
CorrectedWindow(i) == LastN(core[i].rle_hist_ms, core[i].smooth_n)

MaxLagSamples == 520

\* Tick k of the session, 30 s after the last: both engines see the same
\* temperature, dtemp above the previous one; instance 1 runs a load that
\* alternates between 90 % and 30 % every four ticks at 50 W, instance 2 a
\* steady 50 % without a power sensor.
LagSamples(k, dtemp) ==
    LET temp == (IF core[1].temp_hist = << >> THEN 40000
                 ELSE Last(core[1].temp_hist)) + dtemp
    IN  [i \in Instances |->
           IF i = 1
           THEN Sample(IF k % 8 < 4 THEN 90000 ELSE 30000, Some(temp), Some(50000), 30000)
           ELSE Sample(50000, Some(temp), None, 30000)]

\* Each instance serves its own sample.
ComputeEach(ss) ==
    LET r1 == ComputeRle(core[1], ss[1].util_pct, ss[1].temp_c, ss[1].power_w, ss[1].dt_s)
        r2 == ComputeRle(core[2], ss[2].util_pct, ss[2].temp_c, ss[2].power_w, ss[2].dt_s)
    IN  /\ core' = [i \in Instances |-> IF i = 1 THEN r1.self ELSE r2.self]
        /\ call' = [i \in Instances |-> Some(ss[i])]
        /\ result' = [i \in Instances |-> Some(IF i = 1 THEN r1.res ELSE r2.res)]

InitLag == InitOf({DefaultConfig})

\* The temperature holds or rises by 0.1 C: freely on the first three ticks,
\* on every second tick afterwards.
TickLag ==
    /\ Calls(1) < MaxLagSamples
    /\ \E dtemp \in {0, 100} :
          /\ Calls(1) + 1 > 3 => dtemp = (IF (Calls(1) + 1) % 2 = 0 THEN 100 ELSE 0)
          /\ ComputeEach(LagSamples(Calls(1) + 1, dtemp))

NextLag == TickLag

SpecLag == InitLag /\ [][NextLag]_vars

\* Instance i as _theta_update_if_needed sees it on the way from the unprimed
\* to the primed state: the buffers with this sample pushed, the period not
\* yet rewritten.
AtUpdate(i) == [core[i]' EXCEPT !.t0_s = core[i].t0_s, !.theta_index = 0, !.theta_c = 0]

\* The step re-estimated the period of instance i.
Reestimated(i) ==
    /\ core[i]' # core[i]
    /\ core[i].enable_theta_clock
    /\ core[i].since_theta_update_s + Arg(i)'.dt_s >= core[i].theta_update_sec

\* C27 -- The autocorrelation branch is unreachable: on every re-estimation
\* of a sequence whose dt_s are all at least 1e-6 s the lag range searched,
\* [min_lag, max_k), is empty, min_lag being twice the number of buffered
\* samples (capped at 512) and max_k at most half of it (capped at 256).  So
\* the candidate period is tau_th when a thermal estimate exists and the
\* current T0 otherwise, and the T0 values depend only on the temperature and
\* dt samples: two engines on the same temperatures and tick lengths keep the
\* same T0 whatever their utilization, power and scores are.
C27_AutocorrelationUnreachable ==
    [][/\ core[1].t0_s = core[2].t0_s => core[1]'.t0_s = core[2]'.t0_s
       /\ \A i \in Instances :
            Reestimated(i) =>
               \A s1 \in {AtUpdate(i)} :
               \A dt_mean \in {Sum(s1.buf_dt) \div Len(s1.buf_dt)} :
               \A tau_th_est \in {TauThEst(s1, dt_mean)} :
               \A min_lag \in {MinLag(dt_mean, dt_mean * Min(Len(s1.buf_dt), 256),
                                      tau_th_est)} :
                  /\ Arg(i)'.dt_s >= 1
                  /\ min_lag >= 2 * Min(Len(s1.buf_dt), 256)
                  /\ MaxK(Min(Len(s1.buf_rle_sm), 512))
                       <= Min(Len(s1.buf_rle_sm), 512) \div 2
                  /\ min_lag >= MaxK(Min(Len(s1.buf_rle_sm), 512))
                  /\ core[i]'.t0_s
                       = NewT0(s1, T0Candidate(s1, tau_th_est, None))]_vars

\* Both engines have re-estimated on 520 buffered samples, a thermal estimate
\* has moved the period, and the buffered scores of the two differ.
C27_Witness ==
    /\ Calls(1) = 520
    /\ core[1].since_theta_update_s = 0
    /\ core[1].t0_s # InitialT0
    /\ core[1].t0_s = core[2].t0_s
    /\ core[1].buf_rle_sm # core[2].buf_rle_sm
    /\ \E k \in 2..520 : core[1].buf_rle_sm[k] # core[1].buf_rle_sm[k - 1]


\* C28 -- Micro-scale without the clock collapses to the floor: with
\* enable_micro_scale = true and enable_theta_clock = false, dtheta is 0 on
\* every sample, so F_q = 0 and F_mu equals its lower clamp on every sample of
\* every sequence, the blend weight is 1, and the corrected and the blended
\* raw score both equal rle_raw times the clamp, whatever the power and the
\* temperature are.
C28_FloorWithoutClock ==
    \A i \in Instances :
        (Called(i) /\ core[i].enable_micro_scale /\ ~core[i].enable_theta_clock) =>
           /\ core[i].theta_index = 0
           /\ Res(i).F_q = 0
           /\ Res(i).F_mu = FMuFloor
           /\ Res(i).rle_raw_ms = Mul(Res(i).rle_raw, FMuFloor)
           /\ Res(i).rle_raw_uni = Res(i).rle_raw_ms

\* A sample with power and a resolved temperature spread: the sensor and
\* the power factor are both well above the floor, the core score is
\* positive, and F_mu is at its floor all the same.
C28_Witness ==
    /\ Called(1)
    /\ core[1].enable_micro_scale /\ ~core[1].enable_theta_clock
    /\ Res(1).F_s > 500 /\ Res(1).F_p > 500
    /\ Res(1).rle_raw > 0
    /\ Res(1).F_mu = FMuFloor
    /\ Res(1).rle_raw_uni = Mul(Res(1).rle_raw, FMuFloor)


(***************************************************************************)
(* The first samples of a session, with tick lengths of any size           *)
(***************************************************************************)
MaxGapSamples == 3

GapConfigs == {DefaultConfig, FastConfig}

\* Tick lengths from a negative one and 0 over 1 ms to 10 minutes, with and
\* without a temperature reading.
GapSamples ==
    { Sample(90000, temp_c, Some(50000), dt_s) :
        temp_c \in {None, Some(50000)},
        dt_s \in {-1000, 0, 1, 1000, 4000, 600000} }

InitGap == InitOf(GapConfigs)

TickGap ==
    /\ Calls(1) < MaxGapSamples
    /\ \E s \in GapSamples : Compute(1, s)

NextGap == TickGap

SpecGap == InitGap /\ [][NextGap]_vars

\* C29 -- No gap on the first two samples: the current dt_s is pushed into the
\* dt buffer before the median is taken and the median of an even-sized buffer
\* is its upper middle element, so gap_flag = 0 on the first and on the second
\* sample of every session, for every pair of dt_s values; a gap can be
\* flagged from the third sample at the earliest.
C29_NoGapOnFirstTwo ==
    \A i \in Instances :
        (Called(i) /\ Calls(i) <= 2) =>
           /\ Res(i).theta_gap = 0
           /\ Last(core[i].buf_dt) = Arg(i).dt_s
           /\ Calls(i) = 2 => Median(core[i].buf_dt)
                                = Max(core[i].buf_dt[1], core[i].buf_dt[2])

\* The second sample comes 10 minutes after a first tick of 1 ms, far more
\* than 3 times the first tick, and is not flagged.
C29_Witness ==
    /\ Calls(1) = 2
    /\ core[1].enable_theta_clock
    /\ core[1].buf_dt = <<1, 600000>>
    /\ Res(1).theta_gap = 0


\* emergency < aggressive < moderate < maintain
Severity(state) ==
    CASE state = "emergency" -> 0
      [] state = "aggressive" -> 1
      [] state = "moderate" -> 2
      [] state = "maintain" -> 3

\* The prediction a call decides on: the current score when none is given.
PredictionOf(args) ==
    IF IsNone(args.rle_predicted) THEN args.rle_current ELSE Val(args.rle_predicted)

\* C30 -- Control severity is monotone: with emergency < aggressive < moderate
\* < maintain, control_decision never returns a less severe state when the
\* current score, the predicted score or both are lowered: for all c1 <= c2
\* and p1 <= p2, state(c1, p1) <= state(c2, p2).  The call reads no engine
\* state and changes none.  Any two decisions are compared as consecutive
\* calls, in both orders.
C30_SeverityMonotone ==
    [][/\ core' = core
       /\ (Called(1) /\ Called(1)') =>
            /\ (/\ Arg(1).rle_current <= Arg(1)'.rle_current
                /\ PredictionOf(Arg(1)) <= PredictionOf(Arg(1)'))
                 => Severity(Res(1).state) <= Severity(Res(1)'.state)
            /\ (/\ Arg(1)'.rle_current <= Arg(1).rle_current
                /\ PredictionOf(Arg(1)') <= PredictionOf(Arg(1)))
                 => Severity(Res(1)'.state) <= Severity(Res(1).state)
            /\ (/\ Arg(1)'.rle_current = Arg(1).rle_current
                /\ PredictionOf(Arg(1)') = PredictionOf(Arg(1)))
                 => Res(1)'.state = Res(1).state]_vars

\* A decision of emergency on a prediction of 0.05 under a current score of
\* 0.9, on an engine that has served no sample.
C30_Witness ==
    /\ Called(1)
    /\ Arg(1).rle_current = 900
    /\ Arg(1).rle_predicted = Some(50)
    /\ Res(1).state = "emergency"
    /\ Calls(1) = 0

====
